---- MODULE Spec2Model ----
(***************************************************************************)
(* Face-recognition attendance system: the streaming liveness/identity     *)
(* session (app.py generate_frames), the per-day attendance ledger         *)
(* (app.py mark_attendance) and the persisted encoding gallery             *)
(* (face_utils.py).                                                        *)
(*                                                                         *)
(* Text is a sequence of atoms: a word without comma or blank, or one of   *)
(* the atoms "," and " ".  EAR values are in hundredths, face distances in *)
(* tenths.                                                                 *)
(***************************************************************************)
EXTENDS Integers, Sequences, FiniteSets, TLC

\* ------------------------------------------------------------------ bounds
MaxFaces == 1          \* faces detected in one frame
MaxIdFrames == 2       \* frames a session pulls while identifying
MaxClosedRun == 4      \* cap of eye_closed_for_frames
MaxFeed == 9           \* frames fed in the liveness specification
MaxOps == 2            \* enrollment operations begun in the gallery specification

\* ------------------------------------------------------- program constants
blinks_required == 2
EYE_AR_THRESH == 22
EYE_AR_CONSEC_FRAMES == 3
Tolerance == 6

Sessions == {1, 2}
Workers == {1, 2}

\* ---------------------------------------------------------------- text
Comma == ","
Blank == " "

RECURSIVE Join(_, _)
Join(parts, sep) ==
    IF Len(parts) = 0 THEN << >>
    ELSE IF Len(parts) = 1 THEN parts[1]
    ELSE parts[1] \o <<sep>> \o Join(Tail(parts), sep)

RECURSIVE LStrip(_)
LStrip(t) == IF Len(t) > 0 /\ Head(t) = Blank THEN LStrip(Tail(t)) ELSE t

RECURSIVE RStrip(_)
RStrip(t) ==
    IF Len(t) > 0 /\ t[Len(t)] = Blank THEN RStrip(SubSeq(t, 1, Len(t) - 1)) ELSE t

\* str.strip()
Strip(t) == RStrip(LStrip(t))

\* str.split(','): the fields between the commas, empty fields included
RECURSIVE SplitFrom(_, _, _)
SplitFrom(t, cur, acc) ==
    IF Len(t) = 0 THEN Append(acc, cur)
    ELSE IF Head(t) = Comma THEN SplitFrom(Tail(t), << >>, Append(acc, cur))
    ELSE SplitFrom(Tail(t), Append(cur, Head(t)), acc)

Split(t) == SplitFrom(t, << >>, << >>)

HeaderLine == <<"Name", Comma, "Timestamp", Comma, "Taken", Blank, "By", Comma, "Subject">>

\* datetime.now().strftime("%I:%M:%S %p") at the moment session s writes
TimeOf(s) == IF s = 1 THEN <<"09:15:00", Blank, "AM">> ELSE <<"09:16:00", Blank, "AM">>

\* f'{name},{timestamp},{faculty_name},{subject}'
RecordLine(name, ts, faculty_name, subject) == Join(<<name, ts, faculty_name, subject>>, Comma)

\* ------------------------------------------------------------- user table
Unknown == <<"Unknown">>
Bob == <<"Bob">>
AliceFull == <<"Alice">>
AliceUser == <<"alice1">>
DoeJohn == <<"Doe", Comma, Blank, "John">>

\* rows of the Student table: username, full_name, encoding of the first
\* face of the profile image (-1: no image, or an image that shows no face)
Students == <<
    [username |-> Bob, full_name |-> Bob, enc |-> 0],
    [username |-> AliceUser, full_name |-> AliceFull, enc |-> 10],
    [username |-> DoeJohn, full_name |-> DoeJohn, enc |-> 20] >>

\* rows of the Faculty table
Faculty == <<
    [username |-> <<"profp">>, full_name |-> <<"Prof", Blank, "P">>, enc |-> 32],
    [username |-> <<"bobf">>, full_name |-> Bob, enc |-> -1] >>

\* generate_and_save_encodings: all_users = approved_students + all_faculty
AllUsers == Students \o Faculty

Range(f) == {f[i] : i \in DOMAIN f}

\* video_feed: student_names = {student.full_name for student in query.all()}
StudentNames == {Students[i].full_name : i \in DOMAIN Students}

\* video_feed: current_user.full_name of the faculty who opened the stream
FacultyName(s) == Faculty[s].full_name

\* video_feed: request.args.get('subject')
SubjectOf(s) == <<"Math">>

\* -------------------------------------------------------- gallery and file
\* one opcode of the pickle stream of {"encodings": [...], "names": [...]}
Tok(op, enc, name) == [op |-> op, enc |-> enc, name |-> name]

EncToks(encs) == [i \in 1..Len(encs) |-> Tok("ENC", encs[i], << >>)]
NameToks(names) == [i \in 1..Len(names) |-> Tok("NAME", 0, names[i])]

\* pickle.dump(data, f): the bytes of the whole dictionary, closed by STOP
Pickle(data) ==
    <<Tok("DICT", 0, << >>)>> \o EncToks(data.encodings)
        \o NameToks(data.names) \o <<Tok("STOP", 0, << >>)>>

IsEnc(t) == t.op = "ENC"
IsName(t) == t.op = "NAME"

PickleError == [error |-> TRUE, encodings |-> << >>, names |-> << >>]

\* the opcodes in front of the first STOP form a dictionary: DICT, then the
\* encodings, then the names
WellFormed(body) ==
    /\ Len(body) > 0
    /\ body[1].op = "DICT"
    /\ \A i \in 2..Len(body) : body[i].op \in {"ENC", "NAME"}
    /\ \A i \in 2..Len(body) : \A j \in 2..Len(body) :
           (i < j /\ body[i].op = "NAME") => body[j].op = "NAME"

\* pickle.load(f): reads up to the first STOP opcode and ignores what follows;
\* EOFError on a stream without STOP (an empty file is one), UnpicklingError
\* on opcodes that do not form the dictionary
Unpickle(bytes) ==
    IF \A i \in 1..Len(bytes) : bytes[i].op # "STOP" THEN PickleError
    ELSE LET stop == CHOOSE i \in 1..Len(bytes) :
                         bytes[i].op = "STOP" /\ \A j \in 1..(i - 1) : bytes[j].op # "STOP"
             body == SubSeq(bytes, 1, stop - 1)
             es == SelectSeq(body, IsEnc)
             ns == SelectSeq(body, IsName)
         IN  IF WellFormed(body)
             THEN [error |-> FALSE,
                   encodings |-> [i \in 1..Len(es) |-> es[i].enc],
                   names |-> [i \in 1..Len(ns) |-> ns[i].name]]
             ELSE PickleError

EmptyGallery == [encodings |-> << >>, names |-> << >>]
NoFile == [exists |-> FALSE, bytes |-> << >>]
FileOf(data) == [exists |-> TRUE, bytes |-> Pickle(data)]

\* generate_and_save_encodings: one entry per user whose image shows a face,
\* named by the user's username
RECURSIVE RebuildFrom(_)
RebuildFrom(users) ==
    IF Len(users) = 0 THEN EmptyGallery
    ELSE LET rest == RebuildFrom(Tail(users))
             u == Head(users)
         IN  IF u.enc >= 0
             THEN [encodings |-> <<u.enc>> \o rest.encodings,
                   names |-> <<u.username>> \o rest.names]
             ELSE rest

\* contents of <project_dir>/known_faces.pkl found at start-up
AppFiles == {NoFile, FileOf(RebuildFrom(SubSeq(Students, 1, 1))), FileOf(RebuildFrom(AllUsers))}

\* --------------------------------------------------------------- matcher
Abs(x) == IF x < 0 THEN -x ELSE x

\* face_recognition.face_distance(encodings, face_encoding)
face_distance(encodings, q) == [i \in 1..Len(encodings) |-> Abs(encodings[i] - q)]

\* variant: the comparison made with a tolerance of 0.9
compare_faces_loose(encodings, q) ==
    [i \in 1..Len(encodings) |-> face_distance(encodings, q)[i] <= Tolerance + 3]

\* face_recognition.compare_faces(encodings, face_encoding): distance <= 0.6
compare_faces(encodings, q) ==
    [i \in 1..Len(encodings) |-> face_distance(encodings, q)[i] <= Tolerance]

\* variant: the last index holding the minimum
argmin_last(d) == CHOOSE i \in 1..Len(d) :
    /\ \A j \in 1..Len(d) : d[i] <= d[j]
    /\ \A j \in (i + 1)..Len(d) : d[j] > d[i]

\* np.argmin: the first index holding the minimum
argmin(d) == CHOOSE i \in 1..Len(d) :
    /\ \A j \in 1..Len(d) : d[i] <= d[j]
    /\ \A j \in 1..(i - 1) : d[j] > d[i]

\* lines 473-479: whether a face encoding is matched, its name and the
\* distance of the entry chosen for it
Match(kfd, q) ==
    IF Len(kfd.encodings) > 0
    THEN LET matches == compare_faces(kfd.encodings, q)
             face_distances == face_distance(kfd.encodings, q)
             best_match_index == argmin(face_distances)
         IN  IF matches[best_match_index]
             THEN [matched |-> TRUE, name |-> kfd.names[best_match_index],
                   distance |-> face_distances[best_match_index]]
             ELSE [matched |-> FALSE, name |-> Unknown,
                   distance |-> face_distances[best_match_index]]
    ELSE [matched |-> FALSE, name |-> Unknown, distance |-> 0]

\* encodings of the faces a frame can show
QueryEncs == {0, 9, 26}

RECURSIVE SeqsUpTo(_, _)
SeqsUpTo(S, n) ==
    IF n = 0 THEN {<< >>}
    ELSE LET shorter == SeqsUpTo(S, n - 1)
         IN  shorter \cup {Append(q, x) : q \in {r \in shorter : Len(r) = n - 1}, x \in S}

\* ---------------------------------------------------------------- liveness
NoFace == -1
\* what a frame shows the landmark detector: no face, or a face with its EAR
EarValues == {21, 22}
ChallengeInputs == {NoFace} \cup EarValues

\* variant: a blink needs more than EYE_AR_CONSEC_FRAMES closed frames
LivenessUpdateStrict(st, ear) ==
    LET afterEar ==
            IF ear = NoFace THEN st
            ELSE IF ear < EYE_AR_THRESH
                 THEN [st EXCEPT !.eye_closed_for_frames = @ + 1]
                 ELSE [st EXCEPT
                         !.blink_counter =
                             IF st.eye_closed_for_frames > EYE_AR_CONSEC_FRAMES
                             THEN @ + 1 ELSE @,
                         !.eye_closed_for_frames = 0]
    IN  IF afterEar.blink_counter >= blinks_required
        THEN [afterEar EXCEPT !.challenge_passed = TRUE]
        ELSE afterEar

\* variant: the challenge is passed on the frame after the last blink
LivenessUpdateLate(st, ear) ==
    LET afterEar ==
            IF ear = NoFace THEN st
            ELSE IF ear < EYE_AR_THRESH
                 THEN [st EXCEPT !.eye_closed_for_frames = @ + 1]
                 ELSE [st EXCEPT
                         !.blink_counter =
                             IF st.eye_closed_for_frames >= EYE_AR_CONSEC_FRAMES
                             THEN @ + 1 ELSE @,
                         !.eye_closed_for_frames = 0]
    IN  IF st.blink_counter >= blinks_required
        THEN [afterEar EXCEPT !.challenge_passed = TRUE]
        ELSE afterEar

\* lines 450-463: one frame of the blink challenge
LivenessUpdate(st, ear) ==
    LET afterEar ==
            IF ear = NoFace THEN st
            ELSE IF ear < EYE_AR_THRESH
                 THEN [st EXCEPT !.eye_closed_for_frames = @ + 1]
                 ELSE [st EXCEPT
                         !.blink_counter =
                             IF st.eye_closed_for_frames >= EYE_AR_CONSEC_FRAMES
                             THEN @ + 1 ELSE @,
                         !.eye_closed_for_frames = 0]
    IN  IF afterEar.blink_counter >= blinks_required
        THEN [afterEar EXCEPT !.challenge_passed = TRUE]
        ELSE afterEar

\* ------------------------------------------------------------------ state
VARIABLES
    today_file,                   \* attendance_<date>.csv: exists, lines
    app_file,                     \* <project_dir>/known_faces.pkl
    known_face_data,              \* app.py global gallery
    pc,                           \* where each generate_frames generator stands
    challenge_passed, recognition_done, last_frame_encoded,
    blink_counter, eye_closed_for_frames,
    marked_students_for_subject,
    face_encodings,               \* encodings of the faces of the frame in work
    face_names, marked_a_student_this_cycle,
    ma_name, file_exists, need_header,   \* mark_attendance: argument and locals
    emitted,                      \* the frame yielded last
    call_had_record,              \* the pair was on file when the running call began
    returned_true, returned_false,       \* names mark_attendance returned True / False for
    id_frames, detections,        \* frames pulled and detection runs while identifying
    m_matches, best_match_index,  \* locals of the match in flight (lines 474-476)
    m_kfd,                        \* the gallery object whose encodings gave the distances
    fed,                          \* frames given to session 1 in the liveness specification
    data_file,                    \* data/known_faces.pkl of face_utils.py
    wpc,                          \* where each enrollment request stands
    w_data,                       \* the dictionary a request is saving
    w_pos,                        \* bytes of it that have reached the file
    loaded,                       \* what the last _load_encodings of a request returned
    w_op,                         \* the operation a request runs: kind, argument, the
                                  \* gallery persisted when it began, phase, outcome
    snapshots,                    \* galleries persisted or handed to _save_encodings so far
    ops                           \* enrollment operations begun

sessionVars == <<pc, challenge_passed, recognition_done, last_frame_encoded,
                 blink_counter, eye_closed_for_frames, marked_students_for_subject,
                 face_encodings, face_names, marked_a_student_this_cycle,
                 ma_name, file_exists, need_header, emitted,
                 call_had_record, returned_true, returned_false, id_frames, detections,
                 m_matches, best_match_index, m_kfd>>

matchVars == <<m_matches, best_match_index, m_kfd>>

galleryVars == <<data_file, wpc, w_data, w_pos, loaded, w_op, snapshots, ops>>

vars == <<today_file, app_file, known_face_data, sessionVars, fed, galleryVars>>

\* an encoded frame: the text put on it, the faces it shows and their labels
NoFrame == [overlay |-> "none", faces |-> << >>, names |-> << >>]
FrameOf(overlay, faces, names) == [overlay |-> overlay, faces |-> faces, names |-> names]

\* load_known_faces applied to the initial {"encodings": [], "names": []}
LoadKnownFaces(file, current) ==
    IF file.exists
    THEN LET d == Unpickle(file.bytes)
         IN  [encodings |-> d.encodings, names |-> d.names]
    ELSE current

NotLoaded == [status |-> "none", data |-> EmptyGallery]

NoUser == [username |-> << >>, full_name |-> << >>, enc |-> -1]

Op(kind, user, name, before, phase, ret) ==
    [kind |-> kind, user |-> user, name |-> name, before |-> before,
     phase |-> phase, ret |-> ret]

NoOp == Op("none", NoUser, << >>, EmptyGallery, "none", "None")

SessionInit ==
    /\ pc = [s \in Sessions |-> "new"]
    /\ challenge_passed = [s \in Sessions |-> FALSE]
    /\ recognition_done = [s \in Sessions |-> FALSE]
    /\ last_frame_encoded = [s \in Sessions |-> NoFrame]
    /\ blink_counter = [s \in Sessions |-> 0]
    /\ eye_closed_for_frames = [s \in Sessions |-> 0]
    /\ marked_students_for_subject = [s \in Sessions |-> {}]
    /\ face_encodings = [s \in Sessions |-> << >>]
    /\ face_names = [s \in Sessions |-> << >>]
    /\ marked_a_student_this_cycle = [s \in Sessions |-> FALSE]
    /\ ma_name = [s \in Sessions |-> << >>]
    /\ file_exists = [s \in Sessions |-> FALSE]
    /\ need_header = [s \in Sessions |-> FALSE]
    /\ emitted = [s \in Sessions |-> NoFrame]
    /\ call_had_record = [s \in Sessions |-> FALSE]
    /\ returned_true = [s \in Sessions |-> {}]
    /\ returned_false = [s \in Sessions |-> {}]
    /\ id_frames = [s \in Sessions |-> 0]
    /\ detections = [s \in Sessions |-> 0]
    /\ m_matches = [s \in Sessions |-> << >>]
    /\ best_match_index = [s \in Sessions |-> 0]
    /\ m_kfd = [s \in Sessions |-> EmptyGallery]

\* the state at start-up, the content of data/known_faces.pkl left open
InitBut ==
    /\ today_file = [exists |-> FALSE, lines |-> << >>]
    /\ app_file \in AppFiles
    /\ known_face_data = LoadKnownFaces(app_file, EmptyGallery)
    /\ SessionInit
    /\ fed = << >>
    /\ wpc = [w \in Workers |-> "idle"]
    /\ w_data = [w \in Workers |-> EmptyGallery]
    /\ w_pos = [w \in Workers |-> 0]
    /\ loaded = [w \in Workers |-> NotLoaded]
    /\ w_op = [w \in Workers |-> NoOp]
    /\ ops = 0

Init ==
    /\ InitBut
    /\ data_file = NoFile
    /\ snapshots = {EmptyGallery}

\* ------------------------------------------------------------ the ledger
\* line.strip().split(',')
Parts(line) == Split(Strip(line))

\* lines 386-390: some line of the file has this name and this subject
AlreadyMarked(lines, name, subject) ==
    \E i \in 1..Len(lines) :
        LET parts == Parts(lines[i])
        IN  Len(parts) = 4 /\ parts[1] = name /\ parts[4] = subject

\* lines 419-424: names of the lines after the header that carry the subject
LoadMarked(file, subject) ==
    IF file.exists
    THEN {Parts(file.lines[i])[1] : i \in {j \in 2..Len(file.lines) :
              Len(Parts(file.lines[j])) = 4 /\ Parts(file.lines[j])[4] = subject}}
    ELSE {}

\* ------------------------------------------------------- generate_frames
Frozen(s) == recognition_done[s] /\ last_frame_encoded[s] # NoFrame

\* lines 400-431: the generator runs up to its frame loop, or to the loop of
\* error frames when the camera did not open
Start(s) ==
    /\ pc[s] = "new"
    /\ marked_students_for_subject' =
           [marked_students_for_subject EXCEPT ![s] = LoadMarked(today_file, SubjectOf(s))]
    /\ \E opened \in BOOLEAN : pc' = [pc EXCEPT ![s] = IF opened THEN "loop" ELSE "error"]
    /\ UNCHANGED <<today_file, app_file, known_face_data, fed, galleryVars, matchVars,
                   challenge_passed, recognition_done, last_frame_encoded,
                   blink_counter, eye_closed_for_frames, face_encodings, face_names,
                   marked_a_student_this_cycle, ma_name, file_exists, need_header,
                   call_had_record,
                   emitted, returned_true, returned_false, id_frames, detections>>

\* variant: the generator ends behind its first error frame
ErrorFrameOnce(s) ==
    /\ pc[s] = "error"
    /\ emitted' = [emitted EXCEPT ![s] = FrameOf("Error: Camera not found", << >>, << >>)]
    /\ pc' = [pc EXCEPT ![s] = "ended"]
    /\ UNCHANGED <<today_file, app_file, known_face_data, fed, galleryVars, matchVars,
                   challenge_passed, recognition_done, last_frame_encoded,
                   blink_counter, eye_closed_for_frames, marked_students_for_subject,
                   face_encodings, face_names, marked_a_student_this_cycle,
                   ma_name, file_exists, need_header, call_had_record,
                   returned_true, returned_false, id_frames, detections>>

\* lines 429-431: one more error frame
ErrorFrame(s) ==
    /\ pc[s] = "error"
    /\ emitted' = [emitted EXCEPT ![s] = FrameOf("Error: Camera not found", << >>, << >>)]
    /\ UNCHANGED <<today_file, app_file, known_face_data, fed, galleryVars, matchVars, pc,
                   challenge_passed, recognition_done, last_frame_encoded,
                   blink_counter, eye_closed_for_frames, marked_students_for_subject,
                   face_encodings, face_names, marked_a_student_this_cycle,
                   ma_name, file_exists, need_header, call_had_record,
                   returned_true, returned_false, id_frames, detections>>

\* variant: the cached frame is yielded once and the session resumes
FrozenTickOnce(s) ==
    /\ pc[s] \in {"loop", "frozen"}
    /\ Frozen(s)
    /\ pc' = [pc EXCEPT ![s] = "loop"]
    /\ emitted' = [emitted EXCEPT ![s] = last_frame_encoded[s]]
    /\ recognition_done' = [recognition_done EXCEPT ![s] = FALSE]
    /\ UNCHANGED <<today_file, app_file, known_face_data, fed, galleryVars, matchVars,
                   challenge_passed, last_frame_encoded,
                   blink_counter, eye_closed_for_frames, marked_students_for_subject,
                   face_encodings, face_names, marked_a_student_this_cycle,
                   ma_name, file_exists, need_header, call_had_record,
                   returned_true, returned_false, id_frames, detections>>

\* variant: a frozen session yields the frame the camera shows now
FrozenTickLive(s) ==
    /\ pc[s] \in {"loop", "frozen"}
    /\ Frozen(s)
    /\ pc' = [pc EXCEPT ![s] = "frozen"]
    /\ emitted' = [emitted EXCEPT ![s] = FrameOf("Identifying", << >>, << >>)]
    /\ UNCHANGED <<today_file, app_file, known_face_data, fed, galleryVars, matchVars,
                   challenge_passed, recognition_done, last_frame_encoded,
                   blink_counter, eye_closed_for_frames, marked_students_for_subject,
                   face_encodings, face_names, marked_a_student_this_cycle,
                   ma_name, file_exists, need_header, call_had_record,
                   returned_true, returned_false, id_frames, detections>>

\* lines 434-436: a frozen session yields its cached frame again
FrozenTick(s) ==
    /\ pc[s] \in {"loop", "frozen"}
    /\ Frozen(s)
    /\ pc' = [pc EXCEPT ![s] = "frozen"]
    /\ emitted' = [emitted EXCEPT ![s] = last_frame_encoded[s]]
    /\ UNCHANGED <<today_file, app_file, known_face_data, fed, galleryVars, matchVars,
                   challenge_passed, recognition_done, last_frame_encoded,
                   blink_counter, eye_closed_for_frames, marked_students_for_subject,
                   face_encodings, face_names, marked_a_student_this_cycle,
                   ma_name, file_exists, need_header, call_had_record,
                   returned_true, returned_false, id_frames, detections>>

\* lines 438-440: video_capture.read() fails and the generator ends
CameraEnd(s) ==
    /\ pc[s] = "loop"
    /\ ~Frozen(s)
    /\ pc' = [pc EXCEPT ![s] = "ended"]
    /\ UNCHANGED <<today_file, app_file, known_face_data, fed, galleryVars, matchVars,
                   challenge_passed, recognition_done, last_frame_encoded,
                   blink_counter, eye_closed_for_frames, marked_students_for_subject,
                   face_encodings, face_names, marked_a_student_this_cycle,
                   ma_name, file_exists, need_header, call_had_record,
                   emitted, returned_true, returned_false, id_frames, detections>>

\* lines 442-497: the processing of a frame that was read raises (detector,
\* landmark predictor, encoder or matcher on a frame they cannot handle); no
\* try statement encloses the loop body, so the exception leaves the generator
FrameRaises(s) ==
    /\ pc[s] = "loop"
    /\ ~Frozen(s)
    /\ pc' = [pc EXCEPT ![s] = "crashed"]
    /\ UNCHANGED <<today_file, app_file, known_face_data, fed, galleryVars, matchVars,
                   challenge_passed, recognition_done, last_frame_encoded,
                   blink_counter, eye_closed_for_frames, marked_students_for_subject,
                   face_encodings, face_names, marked_a_student_this_cycle,
                   ma_name, file_exists, need_header, call_had_record,
                   emitted, returned_true, returned_false, id_frames, detections>>

LivenessOf(s) ==
    [blink_counter |-> blink_counter[s],
     eye_closed_for_frames |-> eye_closed_for_frames[s],
     challenge_passed |-> challenge_passed[s]]

\* lines 447-463, 499-502: a frame handled by the blink challenge
ChallengeStep(s, ear) ==
    /\ pc[s] = "loop"
    /\ ~Frozen(s)
    /\ ~challenge_passed[s]
    /\ eye_closed_for_frames[s] < MaxClosedRun
    /\ LET st == LivenessUpdate(LivenessOf(s), ear)
       IN  /\ blink_counter' = [blink_counter EXCEPT ![s] = st.blink_counter]
           /\ eye_closed_for_frames' =
                  [eye_closed_for_frames EXCEPT ![s] = st.eye_closed_for_frames]
           /\ challenge_passed' = [challenge_passed EXCEPT ![s] = st.challenge_passed]
    /\ emitted' = [emitted EXCEPT ![s] = FrameOf("Blink", << >>, << >>)]
    /\ last_frame_encoded' =
           [last_frame_encoded EXCEPT ![s] = IF recognition_done[s] THEN emitted'[s] ELSE @]
    /\ UNCHANGED <<today_file, app_file, known_face_data, galleryVars, matchVars, pc, recognition_done,
                   marked_students_for_subject, face_encodings, face_names,
                   marked_a_student_this_cycle, ma_name, file_exists, need_header,
                   call_had_record,
                   returned_true, returned_false, id_frames, detections>>

ChallengeFrame(s) ==
    /\ \E ear \in ChallengeInputs : ChallengeStep(s, ear)
    /\ UNCHANGED fed

\* lines 472-484: the loop over the faces goes on behind the faces already
\* named, up to the next call of mark_attendance or to the end of the faces
RECURSIVE Scan(_, _, _, _, _)
Scan(encs, names, kfd, roster, marked) ==
    IF Len(names) = Len(encs)
    THEN [call |-> FALSE, names |-> names, name |-> << >>]
    ELSE LET m == Match(kfd, encs[Len(names) + 1])
         IN  IF m.matched /\ m.name \in roster /\ m.name \notin marked
             THEN [call |-> TRUE, names |-> names, name |-> m.name]
             ELSE Scan(encs, Append(names, m.name), kfd, roster, marked)

\* variant: a frame that shows a face ends the recognition whoever it is
FinishOnAnyFace(s, encs, names, cycle) ==
    LET has_faces == Len(names) > 0
        done == cycle \/ has_faces
        overlay == IF cycle THEN "Marked"
                   ELSE IF has_faces THEN "Already Marked"
                   ELSE "Identifying"
        frame == FrameOf(overlay, encs, names)
    IN  /\ recognition_done' = [recognition_done EXCEPT ![s] = done]
        /\ last_frame_encoded' = [last_frame_encoded EXCEPT ![s] = IF done THEN frame ELSE @]
        /\ emitted' = [emitted EXCEPT ![s] = frame]
        /\ face_names' = [face_names EXCEPT ![s] = names]
        /\ ma_name' = [ma_name EXCEPT ![s] = << >>]
        /\ call_had_record' = [call_had_record EXCEPT ![s] = FALSE]
        /\ pc' = [pc EXCEPT ![s] = "loop"]

\* lines 486-502: overlay, freeze decision, cached frame, yield
Finish(s, encs, names, cycle) ==
    LET is_known_face_present == \E i \in 1..Len(names) : names[i] # Unknown
        has_faces == Len(names) > 0
        done == cycle \/ (has_faces /\ is_known_face_present)
        overlay == IF cycle THEN "Marked"
                   ELSE IF has_faces /\ is_known_face_present THEN "Already Marked"
                   ELSE IF has_faces THEN "Face Not Recognized"
                   ELSE "Identifying"
        frame == FrameOf(overlay, encs, names)
    IN  /\ recognition_done' = [recognition_done EXCEPT ![s] = done]
        /\ last_frame_encoded' = [last_frame_encoded EXCEPT ![s] = IF done THEN frame ELSE @]
        /\ emitted' = [emitted EXCEPT ![s] = frame]
        /\ face_names' = [face_names EXCEPT ![s] = names]
        /\ ma_name' = [ma_name EXCEPT ![s] = << >>]
        /\ call_had_record' = [call_had_record EXCEPT ![s] = FALSE]
        /\ pc' = [pc EXCEPT ![s] = "loop"]

\* some line of the file was written for this name and this subject
HasRecord(lines, name, subject) ==
    \E i \in 1..Len(lines) : \E w \in Sessions :
        lines[i] = RecordLine(name, TimeOf(w), FacultyName(w), subject)

\* variant: the roster is not consulted, every name of the gallery counts
\* as a member
FacesAnyRoster(s, encs, names, marked, cycle, lines) ==
    LET r == Scan(encs, names, known_face_data,
                  StudentNames \cup Range(known_face_data.names), marked)
    IN  /\ marked_students_for_subject' = [marked_students_for_subject EXCEPT ![s] = marked]
        /\ marked_a_student_this_cycle' = [marked_a_student_this_cycle EXCEPT ![s] = cycle]
        /\ face_encodings' = [face_encodings EXCEPT ![s] = encs]
        /\ IF r.call
           THEN /\ pc' = [pc EXCEPT ![s] = "ma_isfile"]
                /\ ma_name' = [ma_name EXCEPT ![s] = r.name]
                /\ face_names' = [face_names EXCEPT ![s] = r.names]
                /\ call_had_record' =
                       [call_had_record EXCEPT ![s] = HasRecord(lines, r.name, SubjectOf(s))]
                /\ UNCHANGED <<recognition_done, last_frame_encoded, emitted>>
           ELSE Finish(s, encs, r.names, cycle)

\* the for loop over the faces encs goes on with the names collected so far;
\* lines is the content of the day's file at this moment
Faces(s, encs, names, marked, cycle, lines) ==
    LET r == Scan(encs, names, known_face_data, StudentNames, marked)
    IN  /\ marked_students_for_subject' = [marked_students_for_subject EXCEPT ![s] = marked]
        /\ marked_a_student_this_cycle' = [marked_a_student_this_cycle EXCEPT ![s] = cycle]
        /\ face_encodings' = [face_encodings EXCEPT ![s] = encs]
        /\ IF r.call
           THEN /\ pc' = [pc EXCEPT ![s] = "ma_isfile"]
                /\ ma_name' = [ma_name EXCEPT ![s] = r.name]
                /\ face_names' = [face_names EXCEPT ![s] = r.names]
                /\ call_had_record' =
                       [call_had_record EXCEPT ![s] = HasRecord(lines, r.name, SubjectOf(s))]
                /\ UNCHANGED <<recognition_done, last_frame_encoded, emitted>>
           ELSE Finish(s, encs, r.names, cycle)

\* lines 464-471: detection, encoding and the loop over the faces of a frame
IdentifyStep(s) ==
    /\ pc[s] = "loop"
    /\ ~Frozen(s)
    /\ id_frames[s] < MaxIdFrames
    /\ id_frames' = [id_frames EXCEPT ![s] = @ + 1]
    /\ detections' = [detections EXCEPT ![s] = @ + 1]
    /\ \E encs \in SeqsUpTo(QueryEncs, MaxFaces) :
           Faces(s, encs, << >>, marked_students_for_subject[s], FALSE, today_file.lines)
    /\ UNCHANGED <<today_file, app_file, known_face_data, fed, galleryVars, matchVars,
                   blink_counter, eye_closed_for_frames,
                   file_exists, need_header, returned_true, returned_false>>

\* variant: the identification branch runs whatever the challenge says
IdentifyFrameUnchecked(s) ==
    /\ IdentifyStep(s)
    /\ UNCHANGED challenge_passed

\* variant: a frame of the identification branch restarts the challenge
IdentifyFrameRestarts(s) ==
    /\ challenge_passed[s]
    /\ IdentifyStep(s)
    /\ challenge_passed' = [challenge_passed EXCEPT ![s] = FALSE]

\* variant: detection runs on every 5th frame, the frames between keep the
\* labels of the last detection
IdentifyFrameDecimated(s) ==
    /\ challenge_passed[s]
    /\ IF id_frames[s] % 5 = 0
       THEN IdentifyStep(s)
       ELSE /\ pc[s] = "loop"
            /\ ~Frozen(s)
            /\ id_frames[s] < MaxIdFrames
            /\ id_frames' = [id_frames EXCEPT ![s] = @ + 1]
            /\ \E encs \in SeqsUpTo(QueryEncs, MaxFaces) :
                   /\ face_encodings' = [face_encodings EXCEPT ![s] = encs]
                   /\ emitted' = [emitted EXCEPT ![s] =
                          FrameOf("Identifying", encs, emitted[s].names)]
            /\ UNCHANGED <<today_file, app_file, known_face_data, fed, galleryVars, matchVars, pc,
                           recognition_done, last_frame_encoded,
                           blink_counter, eye_closed_for_frames,
                           marked_students_for_subject, face_names,
                           marked_a_student_this_cycle, ma_name, file_exists,
                           need_header, call_had_record, returned_true,
                           returned_false, detections>>
    /\ UNCHANGED challenge_passed

\* lines 447, 464: a frame goes to the identification branch once the
\* challenge has passed
IdentifyFrame(s) ==
    /\ challenge_passed[s]
    /\ IdentifyStep(s)
    /\ UNCHANGED challenge_passed

\* ---------------------------------------------------------- mark_attendance
\* mark_attendance returns ret to line 481; lines 482-484 and the rest of the frame
Return(s, ret, lines) ==
    /\ returned_true' = [returned_true EXCEPT ![s] = IF ret THEN @ \cup {ma_name[s]} ELSE @]
    /\ returned_false' = [returned_false EXCEPT ![s] = IF ret THEN @ ELSE @ \cup {ma_name[s]}]
    /\ Faces(s, face_encodings[s], Append(face_names[s], ma_name[s]),
             IF ret THEN marked_students_for_subject[s] \cup {ma_name[s]}
             ELSE marked_students_for_subject[s],
             marked_a_student_this_cycle[s] \/ ret, lines)

\* line 382: file_exists = os.path.isfile(filename)
MaIsFile(s) ==
    /\ pc[s] = "ma_isfile"
    /\ file_exists' = [file_exists EXCEPT ![s] = today_file.exists]
    /\ pc' = [pc EXCEPT ![s] = IF today_file.exists THEN "ma_read" ELSE "ma_open"]
    /\ UNCHANGED <<today_file, app_file, known_face_data, fed, galleryVars, matchVars,
                   challenge_passed, recognition_done, last_frame_encoded,
                   blink_counter, eye_closed_for_frames, marked_students_for_subject,
                   face_encodings, face_names, marked_a_student_this_cycle,
                   ma_name, need_header, emitted, call_had_record,
                   returned_true, returned_false, id_frames, detections>>

\* lines 385-390: the scan of the file for the name and the subject
MaRead(s) ==
    /\ pc[s] = "ma_read"
    /\ IF AlreadyMarked(today_file.lines, ma_name[s], SubjectOf(s))
       THEN Return(s, FALSE, today_file.lines)
       ELSE /\ pc' = [pc EXCEPT ![s] = "ma_open"]
            /\ UNCHANGED <<recognition_done, last_frame_encoded,
                           marked_students_for_subject, face_encodings, face_names,
                           marked_a_student_this_cycle, ma_name, emitted,
                           call_had_record, returned_true, returned_false>>
    /\ UNCHANGED <<today_file, app_file, known_face_data, fed, galleryVars, matchVars,
                   challenge_passed, blink_counter, eye_closed_for_frames,
                   file_exists, need_header, id_frames, detections>>

\* lines 393-394: open(filename, 'a+') creates the file; the header is due
\* when the file did not exist at line 382 or is empty now
MaOpen(s) ==
    /\ pc[s] = "ma_open"
    /\ today_file' = [today_file EXCEPT !.exists = TRUE]
    /\ need_header' = [need_header EXCEPT ![s] = ~file_exists[s] \/ Len(today_file.lines) = 0]
    /\ pc' = [pc EXCEPT ![s] = "ma_write"]
    /\ UNCHANGED <<app_file, known_face_data, fed, galleryVars, matchVars,
                   challenge_passed, recognition_done, last_frame_encoded,
                   blink_counter, eye_closed_for_frames, marked_students_for_subject,
                   face_encodings, face_names, marked_a_student_this_cycle,
                   ma_name, file_exists, emitted, call_had_record,
                   returned_true, returned_false, id_frames, detections>>

\* variant: the file is opened with 'w' and holds the new record only
MaWriteTruncating(s) ==
    /\ pc[s] = "ma_write"
    /\ today_file' = [today_file EXCEPT !.lines =
           <<HeaderLine, RecordLine(ma_name[s], TimeOf(s), FacultyName(s), SubjectOf(s))>>]
    /\ Return(s, TRUE, today_file'.lines)
    /\ UNCHANGED <<app_file, known_face_data, fed, galleryVars, matchVars,
                   challenge_passed, blink_counter, eye_closed_for_frames,
                   file_exists, need_header, id_frames, detections>>

\* lines 395-397: header and record reach the file when it is closed
MaWrite(s) ==
    /\ pc[s] = "ma_write"
    /\ today_file' = [today_file EXCEPT !.lines =
           @ \o (IF need_header[s] THEN <<HeaderLine>> ELSE << >>)
             \o <<RecordLine(ma_name[s], TimeOf(s), FacultyName(s), SubjectOf(s))>>]
    /\ Return(s, TRUE, today_file'.lines)
    /\ UNCHANGED <<app_file, known_face_data, fed, galleryVars, matchVars,
                   challenge_passed, blink_counter, eye_closed_for_frames,
                   file_exists, need_header, id_frames, detections>>

\* ------------------------------------------------------------ face_utils
Min(a, b) == IF a < b THEN a ELSE b

\* _load_encodings: the dictionary of the file, the empty structure when the
\* file does not exist, or the exception of pickle.load
load_encodings(file) ==
    IF file.exists
    THEN LET d == Unpickle(file.bytes)
         IN  IF d.error THEN [status |-> "error", data |-> EmptyGallery]
             ELSE [status |-> "ok", data |-> [encodings |-> d.encodings, names |-> d.names]]
    ELSE [status |-> "ok", data |-> EmptyGallery]

\* a write of chunk at byte offset pos of the file; a gap left by a
\* truncation reads as NUL bytes
WriteAt(bytes, pos, chunk) ==
    LET padded == IF Len(bytes) < pos
                  THEN bytes \o [i \in 1..(pos - Len(bytes)) |-> Tok("NUL", 0, << >>)]
                  ELSE bytes
    IN  SubSeq(padded, 1, pos) \o chunk
            \o SubSeq(padded, pos + Len(chunk) + 1, Len(padded))

\* variant: only the first pair that carries the name is dropped
KeptPairsButFirst(data, username) ==
    SelectSeq([i \in 1..Min(Len(data.names), Len(data.encodings)) |-> i],
              LAMBDA i : data.names[i] # username
                            \/ \E j \in 1..(i - 1) : data.names[j] = username)

\* lines 62-64: the (name, encoding) pairs of zip(names, encodings) whose
\* name differs from username, as indices
KeptPairs(data, username) ==
    SelectSeq([i \in 1..Min(Len(data.names), Len(data.encodings)) |-> i],
              LAMBDA i : data.names[i] # username)

\* the gallery the file holds for a request that loads it now
Persisted(file) == load_encodings(file).data

\* a request may begin an operation: the handler before it has returned,
\* after its load_known_faces() or by the exception that left it
Free(w) ==
    /\ wpc[w] = "idle"
    /\ \/ w_op[w].phase \in {"none", "loaded"}
       \/ w_op[w].phase = "done" /\ w_op[w].ret = "raised"

\* what add_user_encoding hands back to its caller: every path ends in a
\* bare return or falls off the end of the function
add_returns(outcome) == "None"

\* variant: the new entry replaces the entries the file held
AddPartFresh(w, user, kind, before) ==
    IF user.enc < 0
    THEN /\ w_op' = [w_op EXCEPT ![w] =
                Op(kind, user, user.username, before, "done", add_returns("no_face"))]
         /\ UNCHANGED <<loaded, w_data, wpc, snapshots>>
    ELSE LET r == load_encodings(data_file)
         IN  /\ loaded' = [loaded EXCEPT ![w] = r]
             /\ IF r.status = "error"
                THEN /\ w_op' = [w_op EXCEPT ![w] =
                            Op(kind, user, user.username, before, "done",
                               add_returns("error"))]
                     /\ UNCHANGED <<w_data, wpc, snapshots>>
                ELSE LET new == [encodings |-> <<user.enc>>,
                                 names |-> <<user.username>>]
                     IN  /\ w_data' = [w_data EXCEPT ![w] = new]
                         /\ snapshots' = snapshots \cup {new}
                         /\ wpc' = [wpc EXCEPT ![w] = "save_open"]
                         /\ w_op' = [w_op EXCEPT ![w] =
                                Op(kind, user, user.username, before, "add",
                                   add_returns("added"))]

\* lines 30-46: add_user_encoding up to the call of _save_encodings, run
\* for the operation kind that began with the gallery before
AddPart(w, user, kind, before) ==
    IF user.enc < 0
    THEN /\ w_op' = [w_op EXCEPT ![w] =
                Op(kind, user, user.username, before, "done", add_returns("no_face"))]
         /\ UNCHANGED <<loaded, w_data, wpc, snapshots>>
    ELSE LET r == load_encodings(data_file)
         IN  /\ loaded' = [loaded EXCEPT ![w] = r]
             /\ IF r.status = "error"
                THEN /\ w_op' = [w_op EXCEPT ![w] =
                            Op(kind, user, user.username, before, "done",
                               add_returns("error"))]
                     /\ UNCHANGED <<w_data, wpc, snapshots>>
                ELSE LET new == [encodings |-> Append(r.data.encodings, user.enc),
                                 names |-> Append(r.data.names, user.username)]
                     IN  /\ w_data' = [w_data EXCEPT ![w] = new]
                         /\ snapshots' = snapshots \cup {new}
                         /\ wpc' = [wpc EXCEPT ![w] = "save_open"]
                         /\ w_op' = [w_op EXCEPT ![w] =
                                Op(kind, user, user.username, before, "add",
                                   add_returns("added"))]

\* variant: the names are filtered, the encodings are kept as they were
RemovePartNamesOnly(w, username, kind, user, before) ==
    LET r == load_encodings(data_file)
        kept == KeptPairs(r.data, username)
        new == [encodings |-> r.data.encodings,
                names |-> [i \in 1..Len(kept) |-> r.data.names[kept[i]]]]
    IN  /\ loaded' = [loaded EXCEPT ![w] = r]
        /\ IF r.status = "error"
           THEN /\ w_op' = [w_op EXCEPT ![w] =
                       Op(kind, user, username, before, "done", "raised")]
                /\ UNCHANGED <<w_data, wpc, snapshots>>
           ELSE IF Len(kept) < Len(r.data.names)
                THEN /\ w_data' = [w_data EXCEPT ![w] = new]
                     /\ snapshots' = snapshots \cup {new}
                     /\ wpc' = [wpc EXCEPT ![w] = "save_open"]
                     /\ w_op' = [w_op EXCEPT ![w] =
                            Op(kind, user, username, before, "remove", "None")]
                ELSE /\ w_op' = [w_op EXCEPT ![w] =
                            Op(kind, user, username, before,
                               IF kind = "edit" THEN "add_due" ELSE "done", "None")]
                     /\ UNCHANGED <<w_data, wpc, snapshots>>

\* lines 55-78: remove_user_encoding up to the call of _save_encodings; an
\* exception of _load_encodings leaves the handler
RemovePart(w, username, kind, user, before) ==
    LET r == load_encodings(data_file)
        kept == KeptPairs(r.data, username)
        new == [encodings |-> [i \in 1..Len(kept) |-> r.data.encodings[kept[i]]],
                names |-> [i \in 1..Len(kept) |-> r.data.names[kept[i]]]]
    IN  /\ loaded' = [loaded EXCEPT ![w] = r]
        /\ IF r.status = "error"
           THEN /\ w_op' = [w_op EXCEPT ![w] =
                       Op(kind, user, username, before, "done", "raised")]
                /\ UNCHANGED <<w_data, wpc, snapshots>>
           ELSE IF Len(kept) < Len(r.data.names)
                THEN /\ w_data' = [w_data EXCEPT ![w] = new]
                     /\ snapshots' = snapshots \cup {new}
                     /\ wpc' = [wpc EXCEPT ![w] = "save_open"]
                     /\ w_op' = [w_op EXCEPT ![w] =
                            Op(kind, user, username, before, "remove", "None")]
                ELSE /\ w_op' = [w_op EXCEPT ![w] =
                            Op(kind, user, username, before,
                               IF kind = "edit" THEN "add_due" ELSE "done", "None")]
                     /\ UNCHANGED <<w_data, wpc, snapshots>>

\* lines 25-51, up to the call of _save_encodings
add_user_encoding(w, user) ==
    /\ Free(w)
    /\ ops < MaxOps
    /\ ops' = ops + 1
    /\ AddPart(w, user, "add", Persisted(data_file))
    /\ UNCHANGED <<today_file, app_file, known_face_data, sessionVars, fed, data_file, w_pos>>

\* lines 53-81, up to the call of _save_encodings
remove_user_encoding(w, username) ==
    /\ Free(w)
    /\ ops < MaxOps
    /\ ops' = ops + 1
    /\ RemovePart(w, username, "remove", NoUser, Persisted(data_file))
    /\ UNCHANGED <<today_file, app_file, known_face_data, sessionVars, fed, data_file, w_pos>>

\* lines 83-114, up to the call of _save_encodings
generate_and_save_encodings(w) ==
    /\ Free(w)
    /\ ops < MaxOps
    /\ ops' = ops + 1
    /\ w_data' = [w_data EXCEPT ![w] = RebuildFrom(AllUsers)]
    /\ snapshots' = snapshots \cup {RebuildFrom(AllUsers)}
    /\ wpc' = [wpc EXCEPT ![w] = "save_open"]
    /\ w_op' = [w_op EXCEPT ![w] =
           Op("rebuild", NoUser, << >>, Persisted(data_file), "rebuild", "None")]
    /\ UNCHANGED <<today_file, app_file, known_face_data, sessionVars, fed,
                   data_file, w_pos, loaded>>

\* app.py lines 298-302: edit_user with a changed full name begins with
\* remove_user_encoding(original_full_name)
edit_user(w, user) ==
    /\ Free(w)
    /\ ops < MaxOps
    /\ ops' = ops + 1
    /\ RemovePart(w, user.full_name, "edit", user, Persisted(data_file))
    /\ UNCHANGED <<today_file, app_file, known_face_data, sessionVars, fed, data_file, w_pos>>

\* app.py lines 303-304: edit_user goes on with add_user_encoding(user_to_edit),
\* the username still the one the row had
edit_user_add(w) ==
    /\ wpc[w] = "idle"
    /\ w_op[w].phase = "add_due"
    /\ AddPart(w, w_op[w].user, "edit", w_op[w].before)
    /\ UNCHANGED <<today_file, app_file, known_face_data, sessionVars, fed,
                   data_file, w_pos, ops>>

\* app.py lines 329 and 339: delete_user reads user.full_name and passes it
\* to remove_user_encoding
delete_user(w, user) ==
    /\ Free(w)
    /\ ops < MaxOps
    /\ ops' = ops + 1
    /\ RemovePart(w, user.full_name, "delete", user, Persisted(data_file))
    /\ UNCHANGED <<today_file, app_file, known_face_data, sessionVars, fed, data_file, w_pos>>

\* app.py lines 252, 264, 276, 315, 340, 369: the handler goes on with
\* load_known_faces() (lines 161-166), which reads <project_dir>/known_faces.pkl
\* of app.py line 29, a file the program never writes
handler_load_known_faces(w) ==
    /\ wpc[w] = "idle"
    /\ w_op[w].phase = "done"
    /\ w_op[w].ret # "raised"
    /\ known_face_data' = LoadKnownFaces(app_file, known_face_data)
    /\ w_op' = [w_op EXCEPT ![w].phase = "loaded"]
    /\ UNCHANGED <<today_file, app_file, sessionVars, fed, data_file, wpc, w_data,
                   w_pos, loaded, snapshots, ops>>

\* line 22: open(ENCODINGS_PATH, "wb") creates or truncates the file
save_open(w) ==
    /\ wpc[w] = "save_open"
    /\ data_file' = [exists |-> TRUE, bytes |-> << >>]
    /\ w_pos' = [w_pos EXCEPT ![w] = 0]
    /\ wpc' = [wpc EXCEPT ![w] = "save_dump"]
    /\ UNCHANGED <<today_file, app_file, known_face_data, sessionVars, fed,
                   w_data, loaded, w_op, snapshots, ops>>

\* line 23: pickle.dump fills the write buffer, which reaches the file in
\* part before the dump is complete
save_flush(w) ==
    /\ wpc[w] = "save_dump"
    /\ w_pos[w] = 0
    /\ \E k \in 1..(Len(Pickle(w_data[w])) - 1) :
           /\ data_file' = [data_file EXCEPT
                  !.bytes = WriteAt(@, 0, SubSeq(Pickle(w_data[w]), 1, k))]
           /\ w_pos' = [w_pos EXCEPT ![w] = k]
    /\ UNCHANGED <<today_file, app_file, known_face_data, sessionVars, fed,
                   wpc, w_data, loaded, w_op, snapshots, ops>>

\* lines 22-23: the rest of the dump reaches the file when it is closed
save_close(w) ==
    /\ wpc[w] = "save_dump"
    /\ LET out == Pickle(w_data[w])
       IN  data_file' = [data_file EXCEPT
               !.bytes = WriteAt(@, w_pos[w], SubSeq(out, w_pos[w] + 1, Len(out)))]
    /\ wpc' = [wpc EXCEPT ![w] = "idle"]
    /\ w_op' = [w_op EXCEPT ![w].phase =
           IF w_op[w].kind = "edit" /\ @ = "remove" THEN "add_due" ELSE "done"]
    /\ UNCHANGED <<today_file, app_file, known_face_data, sessionVars, fed,
                   w_data, w_pos, loaded, snapshots, ops>>

\* names the callers pass to remove_user_encoding, and usernames
RemoveNames == {AllUsers[i].full_name : i \in DOMAIN AllUsers}
                   \cup {AllUsers[i].username : i \in DOMAIN AllUsers}

InitGallery == Init /\ app_file = NoFile

NextGallery ==
    \E w \in Workers :
        \/ \E i \in DOMAIN AllUsers : add_user_encoding(w, AllUsers[i])
        \/ \E name \in RemoveNames : remove_user_encoding(w, name)
        \/ generate_and_save_encodings(w)
        \/ save_open(w)
        \/ save_flush(w)
        \/ save_close(w)
        \/ handler_load_known_faces(w)

SpecGallery == InitGallery /\ [][NextGallery]_vars

\* ------------------------------------------- enrollment requests one by one
\* a gallery in which an identity was enrolled twice
TwiceBob == [encodings |-> <<0, 10, 0>>, names |-> <<Bob, AliceUser, Bob>>]

\* what data/known_faces.pkl holds when the requests begin
EnrollFiles == {NoFile, FileOf(RebuildFrom(AllUsers)), FileOf(TwiceBob)}

InitEnroll ==
    /\ InitBut
    /\ app_file = NoFile
    /\ data_file \in EnrollFiles
    /\ snapshots = {Persisted(data_file)}

\* the requests of one admin, each begun when the one before has returned
NextEnroll ==
    \/ \E i \in DOMAIN AllUsers : add_user_encoding(1, AllUsers[i])
    \/ \E name \in RemoveNames : remove_user_encoding(1, name)
    \/ generate_and_save_encodings(1)
    \/ \E i \in DOMAIN AllUsers : edit_user(1, AllUsers[i])
    \/ edit_user_add(1)
    \/ \E i \in DOMAIN AllUsers : delete_user(1, AllUsers[i])
    \/ save_open(1)
    \/ save_flush(1)
    \/ save_close(1)
    \/ handler_load_known_faces(1)

SpecEnroll == InitEnroll /\ [][NextEnroll]_vars

\* the same requests, whatever <project_dir>/known_faces.pkl holds
InitHandlers ==
    /\ InitBut
    /\ data_file \in EnrollFiles
    /\ snapshots = {Persisted(data_file)}

SpecHandlers == InitHandlers /\ [][NextEnroll]_vars

\* ------------------------------------------- liveness on a given frame feed
\* Scenario A of the specification, EAR in hundredths
ScenarioA == <<30, 18, 15, 19, 28, 17, 16, 20, 31>>

IsPrefix(p, q) == Len(p) <= Len(q) /\ SubSeq(q, 1, Len(p)) = p

\* what the next frame of the feed may show: no face, an EAR just below or
\* at the threshold, or the next sample of Scenario A while the feed follows it
FeedChoices ==
    ChallengeInputs \cup
        (IF Len(fed) < Len(ScenarioA) /\ IsPrefix(fed, ScenarioA)
         THEN {ScenarioA[Len(fed) + 1]} ELSE {})

\* lines 438-463: session 1 handles the next frame of the feed
FeedFrame ==
    /\ Len(fed) < MaxFeed
    /\ \E ear \in FeedChoices :
           /\ ChallengeStep(1, ear)
           /\ fed' = Append(fed, ear)
    /\ UNCHANGED galleryVars

InitLiveness == Init /\ app_file = NoFile

NextLiveness == Start(1) \/ FeedFrame

SpecLiveness == InitLiveness /\ [][NextLiveness]_vars

\* ------------------------------------- a match while the gallery is reloaded
\* load_known_faces, called by every enrollment request: the global is bound
\* to the dictionary of <project_dir>/known_faces.pkl.  The program never
\* writes that file; what it holds when it is read is an input.
load_known_faces ==
    /\ \E file \in AppFiles :
           /\ app_file' = file
           /\ known_face_data' = LoadKnownFaces(file, known_face_data)
    /\ UNCHANGED <<today_file, sessionVars, fed, galleryVars>>

\* the frames of this specification show at most one face
ReloadFrames == {<< >>} \cup {<<q>> : q \in QueryEncs}

\* the frame in work is not finished at this step
Stay(s, at) ==
    /\ pc' = [pc EXCEPT ![s] = at]
    /\ UNCHANGED <<recognition_done, last_frame_encoded, emitted, face_names,
                   ma_name, call_had_record>>

\* an exception leaves the generator: the stream of the session is over
Crash(s) == Stay(s, "crashed")

\* lines 464-473: detection, encoding and the test of the gallery's encodings
MatchIf(s) ==
    /\ pc[s] = "loop"
    /\ ~Frozen(s)
    /\ challenge_passed[s]
    /\ id_frames[s] < MaxIdFrames
    /\ id_frames' = [id_frames EXCEPT ![s] = @ + 1]
    /\ detections' = [detections EXCEPT ![s] = @ + 1]
    /\ marked_a_student_this_cycle' = [marked_a_student_this_cycle EXCEPT ![s] = FALSE]
    /\ m_kfd' = [m_kfd EXCEPT ![s] = known_face_data]
    /\ \E encs \in ReloadFrames :
           /\ face_encodings' = [face_encodings EXCEPT ![s] = encs]
           /\ IF Len(encs) = 0 THEN Finish(s, encs, << >>, FALSE)
              ELSE IF Len(known_face_data.encodings) = 0
                   THEN Finish(s, encs, <<Unknown>>, FALSE)
                   ELSE Stay(s, "m_compare")
    /\ UNCHANGED <<today_file, app_file, known_face_data, fed, galleryVars,
                   challenge_passed, blink_counter, eye_closed_for_frames,
                   marked_students_for_subject, file_exists, need_header,
                   returned_true, returned_false, m_matches, best_match_index>>

\* line 474: matches = compare_faces(known_face_data["encodings"], face_encoding)
MatchCompare(s) ==
    /\ pc[s] = "m_compare"
    /\ m_matches' = [m_matches EXCEPT ![s] =
           compare_faces(known_face_data.encodings, face_encodings[s][1])]
    /\ Stay(s, "m_distance")
    /\ UNCHANGED <<today_file, app_file, known_face_data, fed, galleryVars,
                   challenge_passed, blink_counter, eye_closed_for_frames,
                   marked_students_for_subject, face_encodings,
                   marked_a_student_this_cycle, file_exists, need_header,
                   returned_true, returned_false, id_frames, detections,
                   best_match_index, m_kfd>>

\* lines 475-477: the distances, np.argmin (ValueError on an empty list) and
\* matches[best_match_index] (IndexError past the end of matches)
MatchDistance(s) ==
    /\ pc[s] = "m_distance"
    /\ m_kfd' = [m_kfd EXCEPT ![s] = known_face_data]
    /\ LET face_distances == face_distance(known_face_data.encodings, face_encodings[s][1])
       IN  IF Len(face_distances) = 0
           THEN Crash(s) /\ UNCHANGED best_match_index
           ELSE /\ best_match_index' =
                       [best_match_index EXCEPT ![s] = argmin(face_distances)]
                /\ IF argmin(face_distances) > Len(m_matches[s]) THEN Crash(s)
                   ELSE IF m_matches[s][argmin(face_distances)] THEN Stay(s, "m_names")
                   ELSE Finish(s, face_encodings[s], <<Unknown>>, FALSE)
    /\ UNCHANGED <<today_file, app_file, known_face_data, fed, galleryVars,
                   challenge_passed, blink_counter, eye_closed_for_frames,
                   marked_students_for_subject, face_encodings,
                   marked_a_student_this_cycle, file_exists, need_header,
                   returned_true, returned_false, id_frames, detections, m_matches>>

\* lines 478-480: name = known_face_data["names"][best_match_index]
\* (IndexError past the end of names), then the roster test
MatchName(s) ==
    /\ pc[s] = "m_names"
    /\ IF best_match_index[s] > Len(known_face_data.names) THEN Crash(s)
       ELSE LET name == known_face_data.names[best_match_index[s]]
            IN  IF name \in StudentNames /\ name \notin marked_students_for_subject[s]
                THEN /\ pc' = [pc EXCEPT ![s] = "ma_isfile"]
                     /\ ma_name' = [ma_name EXCEPT ![s] = name]
                     /\ call_had_record' = [call_had_record EXCEPT ![s] =
                            HasRecord(today_file.lines, name, SubjectOf(s))]
                     /\ face_names' = [face_names EXCEPT ![s] = << >>]
                     /\ UNCHANGED <<recognition_done, last_frame_encoded, emitted>>
                ELSE Finish(s, face_encodings[s], <<name>>, FALSE)
    /\ UNCHANGED <<today_file, app_file, known_face_data, fed, galleryVars, matchVars,
                   challenge_passed, blink_counter, eye_closed_for_frames,
                   marked_students_for_subject, face_encodings,
                   marked_a_student_this_cycle, file_exists, need_header,
                   returned_true, returned_false, id_frames, detections>>

\* session 1 alone: the day's file is absent until its first record, which
\* freezes it, so its calls of mark_attendance never scan the file
InitReload == Init

NextReload ==
    \/ load_known_faces
    \/ Start(1)
    \/ ChallengeFrame(1)
    \/ MatchIf(1)
    \/ MatchCompare(1)
    \/ MatchDistance(1)
    \/ MatchName(1)
    \/ MaIsFile(1)
    \/ MaOpen(1)
    \/ MaWrite(1)
    \/ FrozenTick(1)

SpecReload == InitReload /\ [][NextReload]_vars

\* ---------------------------------------------------------- specification
Next ==
    \E s \in Sessions :
        \/ Start(s)
        \/ ErrorFrame(s)
        \/ FrozenTick(s)
        \/ CameraEnd(s)
        \/ FrameRaises(s)
        \/ ChallengeFrame(s)
        \/ IdentifyFrame(s)
        \/ MaIsFile(s)
        \/ MaRead(s)
        \/ MaOpen(s)
        \/ MaWrite(s)

Spec == Init /\ [][Next]_vars

TypeOK ==
    /\ \A s \in Sessions : pc[s] \in {"new", "error", "loop", "frozen", "ended",
                                      "ma_isfile", "ma_read", "ma_open", "ma_write",
                                      "m_compare", "m_distance", "m_names", "crashed"}
    /\ \A w \in Workers : /\ wpc[w] \in {"idle", "save_open", "save_dump"}
                         /\ loaded[w].status \in {"none", "ok", "error"}
                         /\ wpc[w] = "save_dump" => w_pos[w] \in 0..Len(Pickle(w_data[w]))
                         /\ w_op[w].kind \in {"none", "add", "remove", "rebuild", "edit",
                                              "delete"}
                         /\ w_op[w].phase \in {"none", "add", "remove", "rebuild",
                                                "add_due", "done", "loaded"}
    /\ ops \in 0..MaxOps

\* ================================================================ claims
MaPcs == {"ma_isfile", "ma_read", "ma_open", "ma_write"}
IdentifyOverlays == {"Identifying", "Marked", "Already Marked", "Face Not Recognized"}

RecordCount(lines, name, subject) ==
    Cardinality({i \in 1..Len(lines) : \E w \in Sessions :
                    lines[i] = RecordLine(name, TimeOf(w), FacultyName(w), subject)})

\* C1: calls of mark_attendance issued by concurrent sessions for the same
\* (identity, subject) on the same day: at most one of them returns True and
\* the day's file never holds two records of the pair.  Stated for the
\* identity Bob and the subject Math of both sessions.
C1_ExactlyOneRecorded ==
    /\ Cardinality({s \in Sessions : Bob \in returned_true[s]}) <= 1
    /\ RecordCount(today_file.lines, Bob, <<"Math">>) <= 1

\* C2: a session enters mark_attendance only from a state in which its own
\* blink challenge has passed on an earlier frame: challenge_passed is set and
\* blink_counter has reached blinks_required.
C2_MarkOnlyAfterLiveness ==
    [][\A s \in Sessions :
          (pc'[s] \in MaPcs) => (challenge_passed[s] /\ blink_counter[s] >= blinks_required)]_vars

C2_Witness == \E s \in Sessions : returned_true[s] # {} /\ challenge_passed[s]

IsSample(e) == e # NoFace

\* number of samples at or above the threshold that close a run of at least
\* EYE_AR_CONSEC_FRAMES samples below it
CompletedBlinks(samples) ==
    Cardinality({i \in 1..Len(samples) :
        /\ i > EYE_AR_CONSEC_FRAMES
        /\ samples[i] >= EYE_AR_THRESH
        /\ \A k \in 1..EYE_AR_CONSEC_FRAMES : samples[i - k] < EYE_AR_THRESH})

\* C3: while the challenge is active blink_counter equals the number of
\* maximal runs of at least 3 consecutive samples below 0.22 that were closed
\* by a sample at or above 0.22 (shorter runs count nothing), and the samples
\* of Scenario A give blink_counter = 2.
C3_BlinkPerClosedRun ==
    LET samples == SelectSeq(fed, IsSample)
    IN  /\ blink_counter[1] = CompletedBlinks(samples)
        /\ samples = ScenarioA => blink_counter[1] = 2

C3_Witness == fed = ScenarioA /\ blink_counter[1] = 2 /\ challenge_passed[1]

\* C4: once challenge_passed holds for a session it holds after every later
\* step of that session.
C4_PassedIsSticky ==
    [][\A s \in Sessions : challenge_passed[s] => challenge_passed'[s]]_vars

C4_Witness ==
    \E s \in Sessions : challenge_passed[s] /\ id_frames[s] >= 2 /\ ~recognition_done[s]

\* the label given to the face q of an identification frame is justified by
\* the gallery: a gallery name only with a closest entry of that name within
\* the tolerance, and Unknown when every entry is farther than the tolerance
Justified(kfd, q, name) ==
    LET n == Len(kfd.encodings)
    IN  /\ name # Unknown =>
              \E i \in 1..n :
                  /\ kfd.names[i] = name
                  /\ Abs(kfd.encodings[i] - q) <= Tolerance
                  /\ \A j \in 1..n : Abs(kfd.encodings[i] - q) <= Abs(kfd.encodings[j] - q)
        /\ (\A i \in 1..n : Abs(kfd.encodings[i] - q) > Tolerance) => name = Unknown

\* C5: every face of every identification frame carries a gallery name only
\* if the chosen entry is at a distance of at most 0.6 from the face, and
\* carries Unknown when the smallest distance exceeds 0.6.
C5_MatchWithinTolerance ==
    \A s \in Sessions :
        emitted[s].overlay \in IdentifyOverlays =>
            \A i \in 1..Len(emitted[s].names) :
                Justified(known_face_data, emitted[s].faces[i], emitted[s].names[i])

\* Scenario C: the gallery holds one entry and the face is at distance 0.9
C5_Witness ==
    /\ Len(known_face_data.names) = 1
    /\ \E s \in Sessions :
           /\ emitted[s].overlay = "Face Not Recognized"
           /\ emitted[s].faces = <<9>>
           /\ emitted[s].names = <<Unknown>>

\* C6: a call of mark_attendance that begins when the day's file already
\* holds a record of its (identity, subject), and that no other call
\* overlaps, does not write: it never gets past the scan of the file.
C6_LaterCallRefused ==
    \A s \in Sessions :
        (call_had_record[s] /\ \A t \in Sessions \ {s} : pc[t] \notin MaPcs)
            => pc[s] \notin {"ma_open", "ma_write"}

SessionState(s) ==
    IF recognition_done[s] /\ last_frame_encoded[s] # NoFrame THEN "FROZEN"
    ELSE IF challenge_passed[s] THEN "IDENTIFYING"
    ELSE "CHALLENGING"

SessionStateNext(s) ==
    IF recognition_done'[s] /\ last_frame_encoded'[s] # NoFrame THEN "FROZEN"
    ELSE IF challenge_passed'[s] THEN "IDENTIFYING"
    ELSE "CHALLENGING"

\* C7: a session starts in CHALLENGING and every step either keeps its state
\* or moves it from CHALLENGING to IDENTIFYING or from IDENTIFYING to FROZEN.
C7_ForwardOnly ==
    /\ \A s \in Sessions : SessionState(s) = "CHALLENGING"
    /\ [][\A s \in Sessions :
             \/ SessionStateNext(s) = SessionState(s)
             \/ SessionState(s) = "CHALLENGING" /\ SessionStateNext(s) = "IDENTIFYING"
             \/ SessionState(s) = "IDENTIFYING" /\ SessionStateNext(s) = "FROZEN"]_vars

C7_Witness == \E s \in Sessions : pc[s] = "frozen" /\ SessionState(s) = "FROZEN"

\* C8: after an identification frame on which the face of an enrolled student
\* of the roster was matched, the day's file holds a record of that student
\* for the session's subject.
C8_MatchedRosterMemberMarked ==
    \A s \in Sessions :
        (pc[s] \in {"loop", "frozen"} /\ emitted[s].overlay \in IdentifyOverlays) =>
            \A i \in 1..Len(emitted[s].names) : \A k \in DOMAIN Students :
                (emitted[s].names[i] = Students[k].username
                 /\ Students[k].full_name \in StudentNames) =>
                    \/ HasRecord(today_file.lines, Students[k].username, SubjectOf(s))
                    \/ HasRecord(today_file.lines, Students[k].full_name, SubjectOf(s))

C10_LoadSeesWholeGallery ==
    \A w \in Workers :
        loaded[w].status # "none" =>
            (loaded[w].status = "ok" /\ loaded[w].data \in snapshots)

\* C11: the name a session reports for a face is the name that one gallery
\* snapshot gives it: the name of the closest entry of the gallery whose
\* encodings gave the distances (Unknown beyond the tolerance), and no reload
\* makes the match fail.
C11_MatchReadsOneSnapshot ==
    \A s \in Sessions :
        /\ pc[s] # "crashed"
        /\ (pc[s] \in {"loop", "frozen"} /\ emitted[s].overlay \in IdentifyOverlays
                /\ Len(emitted[s].names) = 1) =>
               emitted[s].names[1] = Match(m_kfd[s], emitted[s].faces[1]).name

EntriesOf(g, name) == {i \in 1..Len(g.names) : g.names[i] = name}

\* C12: when edit_user has removed and added back an identity whose image
\* shows a face, the persisted gallery holds exactly one entry for that
\* identity and that entry holds the encoding of the image.
C12_EditLeavesOneEntry ==
    \A w \in Workers :
        (w_op[w].kind = "edit" /\ w_op[w].phase = "done" /\ w_op[w].user.enc >= 0) =>
            LET g == Persisted(data_file)
            IN  /\ Cardinality(EntriesOf(g, w_op[w].user.username)) = 1
                /\ \A i \in EntriesOf(g, w_op[w].user.username) :
                       g.encodings[i] = w_op[w].user.enc

\* the gallery g without the entries named name, the others in their order
RECURSIVE Without(_, _)
Without(g, name) ==
    IF Len(g.names) = 0 THEN EmptyGallery
    ELSE LET rest == Without([encodings |-> Tail(g.encodings), names |-> Tail(g.names)],
                             name)
         IN  IF Head(g.names) = name THEN rest
             ELSE [encodings |-> <<Head(g.encodings)>> \o rest.encodings,
                   names |-> <<Head(g.names)>> \o rest.names]

\* C13: when remove_user_encoding(name) has returned, the persisted gallery is
\* the one it found without any entry named name, the other entries in their
\* order; when no entry carried the name (it was absent, or removed by the
\* call before) the gallery is the one it found; and no exception was raised.
C13_RemoveAllIdempotent ==
    \A w \in Workers :
        (w_op[w].kind = "remove" /\ w_op[w].phase = "done") =>
            /\ w_op[w].ret = "None"
            /\ Persisted(data_file) = Without(w_op[w].before, w_op[w].name)
            /\ EntriesOf(w_op[w].before, w_op[w].name) = {} =>
                   Persisted(data_file) = w_op[w].before

C13_Witness ==
    /\ w_op[1].kind = "remove" /\ w_op[1].phase = "done"
    /\ w_op[1].name = Bob /\ w_op[1].before = TwiceBob
    /\ Persisted(data_file) = [encodings |-> <<10>>, names |-> <<AliceUser>>]

\* C14: with a gallery of zero entries the match of a face does not fail
\* (np.argmin is never applied to an empty list) and gives Unknown: every face
\* of an identification frame is labelled Unknown, the session does not call
\* mark_attendance, the day's file is not written and the session stays in
\* IDENTIFYING.
C14_EmptyGalleryAllUnknown ==
    Len(known_face_data.encodings) = 0 =>
        /\ ~today_file.exists /\ today_file.lines = << >>
        /\ \A q \in QueryEncs : Match(known_face_data, q) =
               [matched |-> FALSE, name |-> Unknown, distance |-> 0]
        /\ \A s \in Sessions :
               /\ pc[s] \notin MaPcs
               /\ returned_true[s] = {}
               /\ emitted[s].overlay \in IdentifyOverlays =>
                      /\ \A i \in 1..Len(emitted[s].names) : emitted[s].names[i] = Unknown
                      /\ Len(emitted[s].names) = Len(emitted[s].faces)
                      /\ SessionState(s) = "IDENTIFYING"

C14_Witness ==
    /\ Len(known_face_data.encodings) = 0
    /\ \E s \in Sessions :
           /\ id_frames[s] >= 2
           /\ emitted[s].overlay = "Face Not Recognized"
           /\ emitted[s].names = <<Unknown>>
           /\ SessionState(s) = "IDENTIFYING"

ErrorImage == FrameOf("Error: Camera not found", << >>, << >>)

C16_BadFrameSkipsTick ==
    \A s \in Sessions :
        \/ pc[s] \in {"new", "error", "loop", "frozen"} \cup MaPcs
        \/ pc[s] = "ended"

\* C17: no session marks its own recorder: mark_attendance never returns True
\* in a session for the name of the faculty who opened it, and no line of the
\* day's file carries the same text as Name and as Taken By.
C17_RecorderNotMarked ==
    /\ \A s \in Sessions : FacultyName(s) \notin returned_true[s]
    /\ \A i \in 1..Len(today_file.lines) :
           LET parts == Parts(today_file.lines[i])
           IN  Len(parts) = 4 => parts[1] # parts[3]

\* the lines of the file that are the header
HeaderLines(lines) == {i \in 1..Len(lines) : lines[i] = HeaderLine}

\* C18: the day's file is absent or empty, or its first line is the header,
\* no other line is the header, and every other line splits at its commas
\* into exactly 4 fields.
C18_LedgerWellFormed ==
    (today_file.exists /\ Len(today_file.lines) > 0) =>
        /\ HeaderLines(today_file.lines) = {1}
        /\ \A i \in 2..Len(today_file.lines) : Len(Parts(today_file.lines[i])) = 4

\* C19: an add_user_encoding for an image without a face hands its caller an
\* outcome that differs from the outcome of an add that stored an entry.
C19_NoFaceReported ==
    \A w \in Workers :
        (w_op[w].kind = "add" /\ w_op[w].phase = "done" /\ w_op[w].user.enc < 0) =>
            w_op[w].ret # add_returns("added")

\* C20: when add_user_encoding has returned, the persisted gallery is the one
\* it found with one entry appended, the user's username and the encoding of
\* the first face of the image, when the image shows a face; it is the one it
\* found when the image is missing or shows no face.
C20_AddAppendsOneEntry ==
    \A w \in Workers :
        (w_op[w].kind = "add" /\ w_op[w].phase = "done") =>
            Persisted(data_file) =
                IF w_op[w].user.enc >= 0
                THEN [encodings |-> Append(w_op[w].before.encodings, w_op[w].user.enc),
                      names |-> Append(w_op[w].before.names, w_op[w].user.username)]
                ELSE w_op[w].before

C20_Witness ==
    /\ w_op[1].kind = "add" /\ w_op[1].phase = "done"
    /\ w_op[1].user.username = AliceUser
    /\ w_op[1].before = TwiceBob
    /\ Persisted(data_file) =
           [encodings |-> <<0, 10, 0, 10>>, names |-> <<Bob, AliceUser, Bob, AliceUser>>]

\* C21: when the handler of an enrollment request (add, remove, rebuild, and
\* the edit and delete that call them) has run load_known_faces(), the
\* gallery in memory that the sessions match against is the gallery that
\* data/known_faces.pkl holds.
C21_MemoryIsPersisted ==
    \A w \in Workers :
        (w_op[w].kind \in {"add", "remove", "rebuild", "edit", "delete"}
             /\ w_op[w].phase = "loaded") =>
            known_face_data = Persisted(data_file)

\* a frame with a face whose EAR is below the threshold
ClosedFrame(e) == e # NoFace /\ e < EYE_AR_THRESH

\* the frames end, no-face frames at the very end left out, with
\* EYE_AR_CONSEC_FRAMES frames below the threshold next to one another
EndsWithClosedRun(frames) ==
    \E j \in EYE_AR_CONSEC_FRAMES..Len(frames) :
        /\ \A k \in (j - EYE_AR_CONSEC_FRAMES + 1)..j : ClosedFrame(frames[k])
        /\ \A k \in (j + 1)..Len(frames) : frames[k] = NoFace

\* C22: a frame without a face neither increments eye_closed_for_frames nor
\* blink_counter, and it breaks the closed run: a blink is counted only when
\* the frames before the closing one hold EYE_AR_CONSEC_FRAMES frames below
\* the threshold with no frame without a face between them.
C22_NoFaceBreaksRun ==
    [][Len(fed') = Len(fed) + 1 =>
           /\ fed'[Len(fed')] = NoFace =>
                  /\ eye_closed_for_frames'[1] <= eye_closed_for_frames[1]
                  /\ blink_counter'[1] = blink_counter[1]
           /\ blink_counter'[1] > blink_counter[1] => EndsWithClosedRun(fed)]_vars

\* C23: a frozen session reads no frame, runs no detection and no matching
\* and does not call mark_attendance; each of its steps yields one frame, the
\* annotated frame it yielded on the step that froze it.
C23_FrozenReplaysFrame ==
    /\ [](\A s \in Sessions :
             Frozen(s) => /\ pc[s] \in {"loop", "frozen"}
                          /\ emitted[s] = last_frame_encoded[s])
    /\ [][\A s \in Sessions :
             Frozen(s) =>
                 /\ recognition_done'[s] /\ last_frame_encoded'[s] = last_frame_encoded[s]
                 /\ emitted'[s] = last_frame_encoded[s]
                 /\ id_frames'[s] = id_frames[s] /\ detections'[s] = detections[s]
                 /\ face_encodings'[s] = face_encodings[s]
                 /\ face_names'[s] = face_names[s]
                 /\ m_matches'[s] = m_matches[s]
                 /\ best_match_index'[s] = best_match_index[s]
                 /\ blink_counter'[s] = blink_counter[s]
                 /\ eye_closed_for_frames'[s] = eye_closed_for_frames[s]
                 /\ pc'[s] \in {"loop", "frozen"}
                 /\ returned_true'[s] = returned_true[s]
                 /\ returned_false'[s] = returned_false[s]
                 /\ (today_file' # today_file =>
                        \E t \in Sessions \ {s} : pc[t] \in MaPcs)]_vars

C23_Witness ==
    \E s \in Sessions :
        /\ pc[s] = "frozen"
        /\ emitted[s].overlay = "Marked"
        /\ returned_true[s] # {}

\* C24: a session is frozen only by a cycle that wrote a record ("Marked")
\* or that detected a known identity for whom the day's file holds a record
\* of the session's subject ("Already Marked"); a cycle without faces or
\* with unknown faces only leaves the session identifying.
C24_FreezeOnlyOnRecord ==
    \A s \in Sessions :
        /\ Frozen(s) =>
               LET frame == last_frame_encoded[s]
               IN  \/ /\ frame.overlay = "Marked"
                      /\ \E n \in returned_true[s] :
                             HasRecord(today_file.lines, n, SubjectOf(s))
                   \/ /\ frame.overlay = "Already Marked"
                      /\ \E i \in 1..Len(frame.names) :
                             /\ frame.names[i] # Unknown
                             /\ \/ HasRecord(today_file.lines, frame.names[i], SubjectOf(s))
                                \/ AlreadyMarked(today_file.lines, frame.names[i],
                                                 SubjectOf(s))
        /\ (pc[s] = "loop" /\ emitted[s].overlay \in IdentifyOverlays
               /\ \A i \in 1..Len(emitted[s].names) : emitted[s].names[i] = Unknown) =>
               ~Frozen(s)

\* C25: after every frame challenge_passed is true exactly when
\* blink_counter has reached blinks_required, and blink_counter stays
\* within 0..blinks_required for the whole session.
C25_PassedIffRequiredBlinks ==
    \A s \in Sessions :
        /\ challenge_passed[s] <=> blink_counter[s] >= blinks_required
        /\ blink_counter[s] \in 0..blinks_required

C25_Witness ==
    \E s \in Sessions :
        /\ challenge_passed[s]
        /\ blink_counter[s] = blinks_required
        /\ eye_closed_for_frames[s] = 0
        /\ id_frames[s] = 0

\* C26: mark_attendance only appends: over every step the day's file stays
\* in existence and its content before the step is a prefix of its content
\* after it; the steps of a call up to its scan, and the step on which a
\* call returns False, leave the file as it is.
C26_AppendOnly ==
    [][/\ today_file.exists => today_file'.exists
       /\ IsPrefix(today_file.lines, today_file'.lines)
       /\ \A s \in Sessions :
              (\/ returned_false'[s] # returned_false[s]
               \/ pc[s] \in {"ma_isfile", "ma_read"} /\ pc'[s] # pc[s]) =>
                  today_file' = today_file]_vars

C26_Witness ==
    \E s \in Sessions :
        /\ returned_false[s] # {}
        /\ Len(today_file.lines) >= 2
        /\ \E t \in Sessions \ {s} : returned_true[t] # {}

\* indices of the gallery entries nearest to the face encoding q
Nearest(kfd, q) ==
    {k \in 1..Len(kfd.encodings) :
        \A j \in 1..Len(kfd.encodings) :
            Abs(kfd.encodings[k] - q) <= Abs(kfd.encodings[j] - q)}

\* C27: the name given to a face is the name of the gallery entry at the
\* smallest distance when that distance is within the tolerance, of the
\* first such entry in the order of the gallery when several entries are at
\* that distance, and "Unknown" otherwise; it is a function of the gallery
\* and the face encoding.
C27_FirstNearestEntry ==
    \A s \in Sessions :
        (pc[s] \in {"loop", "frozen"} /\ emitted[s].overlay \in IdentifyOverlays) =>
            \A i \in 1..Len(emitted[s].faces) :
                LET q == emitted[s].faces[i]
                    near == Nearest(known_face_data, q)
                IN  IF near = {} THEN emitted[s].names[i] = Unknown
                    ELSE \E k \in near :
                             /\ \A j \in near : k <= j
                             /\ emitted[s].names[i] =
                                    IF Abs(known_face_data.encodings[k] - q) <= Tolerance
                                    THEN known_face_data.names[k] ELSE Unknown

C27_Witness ==
    \E s \in Sessions :
        /\ pc[s] \in {"loop", "frozen"}
        /\ emitted[s].overlay \in IdentifyOverlays
        /\ \E i \in 1..Len(emitted[s].faces) :
               /\ Cardinality(Nearest(known_face_data, emitted[s].faces[i])) >= 2
               /\ emitted[s].names[i] = DoeJohn

\* C28: when delete_user has returned, the persisted gallery holds no entry
\* under the name add_user_encoding stores for the deleted user.
C28_DeleteLeavesNoEntry ==
    \A w \in Workers :
        (w_op[w].kind = "delete" /\ w_op[w].phase \in {"done", "loaded"}) =>
            EntriesOf(Persisted(data_file), w_op[w].user.username) = {}

\* the persisted gallery shows what the finished call of worker w was for
EffectPersisted(w) ==
    LET entries == EntriesOf(Persisted(data_file), w_op[w].name)
    IN  IF w_op[w].kind = "add" THEN entries # {} ELSE entries = {}

\* C29: when two calls of add_user_encoding or remove_user_encoding for
\* different names have both returned, neither having met an exception,
\* the persisted gallery shows the effect of both, however they overlapped.
C29_NoLostUpdate ==
    (/\ \A w \in Workers :
            /\ w_op[w].kind \in {"add", "remove"}
            /\ w_op[w].phase \in {"done", "loaded"}
            /\ loaded[w].status = "ok"
     /\ w_op[1].name # w_op[2].name) =>
        \A w \in Workers : EffectPersisted(w)

\* C30: every line of the day's file after the header is the record of a
\* name of the roster, written by a session for which mark_attendance
\* returned True on that name, with that session's faculty name and subject;
\* mark_attendance is never called for a name outside the roster.
C30_RecordsOfOwnSession ==
    /\ \A i \in 1..Len(today_file.lines) :
           \/ today_file.lines[i] = HeaderLine
           \/ \E s \in Sessions : \E n \in returned_true[s] \cap StudentNames :
                  today_file.lines[i] =
                      RecordLine(n, TimeOf(s), FacultyName(s), SubjectOf(s))
    /\ \A s \in Sessions :
           /\ pc[s] \in MaPcs => ma_name[s] \in StudentNames
           /\ returned_true[s] \cup returned_false[s] \subseteq StudentNames

C30_Witness ==
    /\ \E i \in 1..Len(today_file.lines) :
           today_file.lines[i] = RecordLine(DoeJohn, TimeOf(2), FacultyName(2), SubjectOf(2))
    /\ \E i \in 1..Len(today_file.lines) :
           today_file.lines[i] = RecordLine(Bob, TimeOf(1), FacultyName(1), SubjectOf(1))

\* the two lists of g have one length and each name stands next to the
\* encoding of the profile image of the user who has that username
Aligned(g) ==
    /\ Len(g.names) = Len(g.encodings)
    /\ \A i \in 1..Len(g.names) :
           \E k \in DOMAIN AllUsers :
               /\ AllUsers[k].username = g.names[i]
               /\ AllUsers[k].enc >= 0
               /\ AllUsers[k].enc = g.encodings[i]

\* C31: with the requests run one at a time, every gallery handed to
\* _save_encodings, and the gallery the file holds between two requests,
\* has as many names as encodings, and names[i] is the username of the user
\* whose image gave encodings[i].
C31_GalleryAligned ==
    /\ \A g \in snapshots : Aligned(g)
    /\ wpc[1] = "idle" => (load_encodings(data_file).status = "ok"
                              /\ Aligned(Persisted(data_file)))

C31_Witness ==
    /\ ops = MaxOps
    /\ wpc[1] = "idle"
    /\ w_op[1].kind = "remove" /\ w_op[1].phase = "loaded"
    /\ w_op[1].name = AliceUser
    /\ Persisted(data_file) = [encodings |-> <<0, 20, 32, 0>>,
                                names |-> <<Bob, DoeJohn, <<"profp">>, Bob>>]

====
